---- MODULE Spec2Model ----
(***************************************************************************)
(* Diamond-lattice layout of the rag basket generator.                     *)
(*                                                                         *)
(* Two programs lay out the lattice:                                       *)
(*   "rag_basket"  src/rag_basket.py  make_rag_basket(), rows staggered,   *)
(*                 four faces, slot avoidance on the face opposite the     *)
(*                 slot;                                                   *)
(*   "rag-basket"  src/rag-basket.py  the original script, rows not        *)
(*                 staggered, three faces, face size read from the kernel. *)
(*                                                                         *)
(* Lengths are millimetres.  The parameters are whole millimetres and      *)
(* slot_depth_ratio is a multiple of 1/2 (field ratio2 = 2 * ratio), so    *)
(* every coordinate the code computes is a multiple of 1/4 mm and the      *)
(* float arithmetic is exact.  A name ending in 4 holds four times the     *)
(* value of the source variable of the same name.                          *)
(***************************************************************************)
EXTENDS Integers, Sequences, FiniteSets

VARIABLES variant, p, pc, sideIdx, faces, cuts, slot, err,
          dpc, force, stepIdx, files, exports, runs, filesAtStart, prevRun

latticeVars == <<variant, p, pc, sideIdx, faces, cuts, slot, err>>

diagVars ==
    <<dpc, force, stepIdx, files, exports, runs, filesAtStart, prevRun>>

vars == <<latticeVars, diagVars>>

----------------------------------------------------------------------------
(* Bounds of the explored inputs *)

MaxWidth == 6
MaxDepth == 6
MaxHeight == 8
MaxWall == 1
MaxOffset == 2
MaxSlotWidth == 4
MaxCell == 2
MaxSpacing == 2
MaxRuns == 2

(* Program constants *)

DEFAULT_WIDTH == 100
DEFAULT_DEPTH == 120
DEFAULT_HEIGHT == 150
DEFAULT_WALL == 2
DEFAULT_SLOT_WIDTH == 30
LATTICE_OFFSET_EDGE == 10
DIAMOND_WIDTH == 8
DIAMOND_HEIGHT == 12
DIAMOND_SPACING_X == 4
DIAMOND_SPACING_Y == 4
margin == 5

----------------------------------------------------------------------------
(* Parameters *)

Params(w, d, h, t, sw, r2, off, dw, dh, sx, sy) ==
    [width |-> w, depth |-> d, height |-> h, wall_thickness |-> t,
     slot_width |-> sw, ratio2 |-> r2, lattice_offset_edge |-> off,
     diamond_width |-> dw, diamond_height |-> dh,
     diamond_spacing_x |-> sx, diamond_spacing_y |-> sy]

\* the defaults of both programs (DEFAULT_SLOT_DEPTH_RATIO = 0.5)
DefaultParams ==
    Params(DEFAULT_WIDTH, DEFAULT_DEPTH, DEFAULT_HEIGHT, DEFAULT_WALL,
           DEFAULT_SLOT_WIDTH, 1, LATTICE_OFFSET_EDGE, DIAMOND_WIDTH,
           DIAMOND_HEIGHT, DIAMOND_SPACING_X, DIAMOND_SPACING_Y)

\* slot_depth_ratio in {0, 0.5, 1}
Ratios2 == 0 .. 2

\* horizontal sweep: footprint, wall, slot width and horizontal cell
HorizontalInputs ==
    { Params(w, d, 6, t, sw, r2, 0, dw, 2, sx, 1) :
        w \in 1 .. MaxWidth, d \in 1 .. MaxDepth, t \in 0 .. MaxWall,
        sw \in {2, MaxSlotWidth}, r2 \in {1, 2},
        dw \in 1 .. MaxCell, sx \in 1 .. MaxSpacing }

\* vertical sweep: height, margin, slot depth and vertical cell
VerticalInputs ==
    { Params(w, 5, h, t, sw, r2, off, 1, dh, 1, sy) :
        w \in {5, 6}, h \in 1 .. MaxHeight, t \in 0 .. MaxWall,
        sw \in {2, MaxSlotWidth}, r2 \in Ratios2, off \in 0 .. MaxOffset,
        dh \in 1 .. MaxCell, sy \in 1 .. MaxSpacing }

\* any numeric input: zero and negative sizes, cells and spacings
NumericInputs ==
    { Params(w, 3, h, 0, 2, 1, off, dw, dh, sx, sy) :
        w \in {-3, 0, 4}, h \in {-3, 0, 4}, off \in {-1, 0},
        dw \in -1 .. 1, dh \in -1 .. 1, sx \in -1 .. 1, sy \in -1 .. 1 }

\* the scenarios named in the specification: the default basket and a
\* three-column staggered face (face_w = 40 - 2*2 = 36, pitch 12)
ScenarioInputs ==
    { DefaultParams,
      Params(40, 40, 38, 2, 10, 1, 2, DIAMOND_WIDTH, DIAMOND_HEIGHT,
             DIAMOND_SPACING_X, DIAMOND_SPACING_Y) }

Inputs == HorizontalInputs \cup VerticalInputs \cup NumericInputs
            \cup ScenarioInputs

Variants == {"rag_basket", "rag-basket"}

----------------------------------------------------------------------------
(* Arithmetic helpers *)

Abs(x) == IF x < 0 THEN -x ELSE x

Max(a, b) == IF a >= b THEN a ELSE b

\* int(a / b) of Python for b # 0: the quotient truncated towards zero
IntDiv(a, b) ==
    IF (a >= 0) = (b > 0) THEN Abs(a) \div Abs(b)
    ELSE -(Abs(a) \div Abs(b))

----------------------------------------------------------------------------
(* The slot *)

\* the slot cutter of make_rag_basket and of the script: a rectangle
\* total_cut_h high whose centre is moved to cut_center_z
make_slot_cut_height4 == 2 * p.height * p.ratio2

make_total_cut_h4 == make_slot_cut_height4 + 4 * margin

make_cut_center_z4 ==
    2 * p.height - (make_slot_cut_height4 \div 2) + 2 * margin

cutter_min_z4 == make_cut_center_z4 - (make_total_cut_h4 \div 2)

cutter_max_z4 == make_cut_center_z4 + (make_total_cut_h4 \div 2)

\* the slot bounds recomputed in create_lattice_for_face
slot_cut_height4 == 2 * p.height * p.ratio2

total_cut_h4 == slot_cut_height4 + 4 * margin

\* cut_center_z with the margin subtracted
CutCenterZMarginBelow4 ==
    2 * p.height - (slot_cut_height4 \div 2) - 2 * margin

cut_center_z4 == 2 * p.height - (slot_cut_height4 \div 2) + 2 * margin

slot_min_z4 == cut_center_z4 - (total_cut_h4 \div 2)

slot_max_z4 == cut_center_z4 + (total_cut_h4 \div 2)

\* slot_face with ">=" in the place of ">": a square footprint gets the slot
\* on +X
SlotFaceGe ==
    IF variant = "rag_basket"
    THEN (IF p.depth >= p.width THEN "+X" ELSE "+Y")
    ELSE "+Y"

\* rag_basket.py puts the slot on the long edge; the script always on +Y
slot_face ==
    IF variant = "rag_basket"
    THEN (IF p.depth > p.width THEN "+X" ELSE "+Y")
    ELSE "+Y"

opposite_face(f) ==
    CASE f = "+X" -> "-X"
      [] f = "-X" -> "+X"
      [] f = "+Y" -> "-Y"
      [] f = "-Y" -> "+Y"

slot_horiz_center4 == 0

slot_horiz_half4 == 2 * p.slot_width

----------------------------------------------------------------------------
(* The faces *)

\* the faces the lattice loop visits, in order
LatticeSides ==
    IF variant = "rag_basket"
    THEN <<"-Y", "+Y", "+X", "-X">>
    ELSE <<"-Y", "+X", "-X">>

\* rag_basket.py: the face size from the parameters
ModuleFaceSize(face_selector) ==
    IF face_selector \in {"-Y", "+Y"}
    THEN [face_w |-> p.width - 2 * p.wall_thickness,
          face_h |-> p.height - p.wall_thickness]
    ELSE [face_w |-> p.depth - 2 * p.wall_thickness,
          face_h |-> p.height - p.wall_thickness]

\* rag-basket.py: the bounding box of the first face the selector matches.
\* The shelled box has an inner and an outer face for each direction and
\* the kernel decides which comes first.
KernelBoundingBoxes(face_selector) ==
    LET t == p.wall_thickness
        inner == IF face_selector \in {"-Y", "+Y"}
                 THEN [xlen |-> p.width, ylen |-> 0, zlen |-> p.height]
                 ELSE [xlen |-> 0, ylen |-> p.depth, zlen |-> p.height]
        outer == IF face_selector \in {"-Y", "+Y"}
                 THEN [xlen |-> p.width + 2 * t, ylen |-> 0,
                       zlen |-> p.height + t]
                 ELSE [xlen |-> 0, ylen |-> p.depth + 2 * t,
                       zlen |-> p.height + t]
    IN {inner, outer}

ScriptFaceSize(bb) ==
    [face_w |-> Max(bb.xlen, bb.ylen), face_h |-> bb.zlen]

\* usable area: the script keeps the margin on both axes, rag_basket.py
\* only on the vertical one
usable_w(size) ==
    IF variant = "rag_basket" THEN size.face_w
    ELSE size.face_w - 2 * p.lattice_offset_edge

\* usable_h without the vertical margin
UsableHNoMargin(size) == size.face_h

usable_h(size) == size.face_h - 2 * p.lattice_offset_edge

pitch_x == p.diamond_width + p.diamond_spacing_x

pitch_y == p.diamond_height + p.diamond_spacing_y

\* GridCount with round() in the place of int()
GridCountRounded(usable, pitch) ==
    IF variant = "rag_basket"
    THEN IntDiv(2 * Max(0, usable) + pitch, 2 * pitch)
    ELSE IntDiv(2 * usable + pitch, 2 * pitch)

\* GridCount with the quotient rounded up
GridCountCeil(usable, pitch) ==
    IF variant = "rag_basket"
    THEN IntDiv(Max(0, usable) + Abs(pitch) - 1, pitch)
    ELSE IntDiv(usable + Abs(pitch) - 1, pitch)

\* the grid count of one axis, for a non-zero pitch
GridCount(usable, pitch) ==
    IF variant = "rag_basket"
    THEN IntDiv(Max(0, usable), pitch)
    ELSE IntDiv(usable, pitch)

----------------------------------------------------------------------------
(* The layout of one face *)

\* grid_total_w with one spacing per cell
GridTotalWithTrailingGap(nx) ==
    nx * p.diamond_width + nx * p.diamond_spacing_x

grid_total_w(nx) == nx * p.diamond_width + (nx - 1) * p.diamond_spacing_x

grid_total_h(ny) == ny * p.diamond_height + (ny - 1) * p.diamond_spacing_y

\* row_offset4 with the even rows shifted
RowOffsetEven4(j) ==
    IF variant = "rag_basket" /\ j % 2 = 0 THEN 2 * pitch_x ELSE 0

\* row_offset with a stagger of a whole pitch
RowOffsetFull4(j) ==
    IF variant = "rag_basket" /\ j % 2 = 1 THEN 4 * pitch_x ELSE 0

\* rag_basket.py shifts the odd rows by half a pitch; the script has no
\* row offset
row_offset4(j) ==
    IF variant = "rag_basket" /\ j % 2 = 1 THEN 2 * pitch_x ELSE 0

lx4(i, j, nx) ==
    -2 * grid_total_w(nx) + 2 * p.diamond_width + 4 * i * pitch_x
        + row_offset4(j)

lz4(j, ny) == -2 * grid_total_h(ny) + 2 * p.diamond_height + 4 * j * pitch_y

\* the centre of a diamond in model coordinates
center4(face_selector, lx, lz) ==
    CASE face_selector = "-Y" -> <<lx, -2 * p.depth, lz>>
      [] face_selector = "+Y" -> <<lx, 2 * p.depth, lz>>
      [] face_selector = "+X" -> <<2 * p.width, lx, lz>>
      [] face_selector = "-X" -> <<-2 * p.width, lx, lz>>

within_horiz(face_selector, lx, lz) ==
    LET c == center4(face_selector, lx, lz)
        clear4 == slot_horiz_half4 + 4 * p.lattice_offset_edge
    IN IF slot_face \in {"+X", "-X"}
       THEN Abs(c[2] - slot_horiz_center4) < clear4
       ELSE Abs(c[1] - slot_horiz_center4) < clear4

within_vert(face_selector, lx, lz) ==
    LET cz == center4(face_selector, lx, lz)[3]
    IN /\ cz > slot_min_z4 - 4 * p.lattice_offset_edge
       /\ cz < slot_max_z4 + 4 * p.lattice_offset_edge

\* is_excluded with the two tests joined by "or"
IsExcludedEither(lx, lz) ==
    LET f == opposite_face(slot_face)
    IN within_horiz(f, lx, lz) \/ within_vert(f, lx, lz)

\* the coordinate test that skips a diamond over the slot region
is_excluded(lx, lz) ==
    LET f == opposite_face(slot_face)
    IN within_horiz(f, lx, lz) /\ within_vert(f, lx, lz)

\* TestsExclusion with the slot face taken for its opposite
TestsExclusionOnSlotFace(face_selector) ==
    variant = "rag_basket" /\ face_selector = slot_face

\* the exclusion test runs only on the face opposite the slot, and only in
\* rag_basket.py
TestsExclusion(face_selector) ==
    variant = "rag_basket" /\ face_selector = opposite_face(slot_face)

Cutter(face_selector, i, j, nx, ny) ==
    [face |-> face_selector, i |-> i, j |-> j,
     lx |-> lx4(i, j, nx), lz |-> lz4(j, ny)]

\* InnerLoop with range(nx - 1): the last column is never placed
RECURSIVE InnerLoopShort(_, _, _, _, _)
InnerLoopShort(face_selector, j, i, nx, ny) ==
    IF i >= nx - 1 THEN <<>>
    ELSE LET c == Cutter(face_selector, i, j, nx, ny)
         IN (IF TestsExclusion(face_selector) /\ is_excluded(c.lx, c.lz)
             THEN <<>>
             ELSE <<c>>) \o InnerLoopShort(face_selector, j, i + 1, nx, ny)

\* InnerLoop with "break" in the place of "continue": an excluded placement
\* ends its row
RECURSIVE InnerLoopBreak(_, _, _, _, _)
InnerLoopBreak(face_selector, j, i, nx, ny) ==
    IF i >= nx THEN <<>>
    ELSE LET c == Cutter(face_selector, i, j, nx, ny)
         IN IF TestsExclusion(face_selector) /\ is_excluded(c.lx, c.lz)
            THEN <<>>
            ELSE <<c>> \o InnerLoopBreak(face_selector, j, i + 1, nx, ny)

\* the loop over the columns of row j: the cutters the row appends
RECURSIVE InnerLoop(_, _, _, _, _)
InnerLoop(face_selector, j, i, nx, ny) ==
    IF i >= nx THEN <<>>
    ELSE LET c == Cutter(face_selector, i, j, nx, ny)
         IN (IF TestsExclusion(face_selector) /\ is_excluded(c.lx, c.lz)
             THEN <<>>
             ELSE <<c>>) \o InnerLoop(face_selector, j, i + 1, nx, ny)

\* the loop over the rows: all the cutters appended from row j on
RECURSIVE OuterLoop(_, _, _, _)
OuterLoop(face_selector, j, nx, ny) ==
    IF j >= ny THEN <<>>
    ELSE InnerLoop(face_selector, j, 0, nx, ny)
            \o OuterLoop(face_selector, j + 1, nx, ny)

\* one call of create_lattice_for_face: raised is the ZeroDivisionError of
\* a zero pitch, isNone the None the script returns for an empty grid
create_lattice_for_face(face_selector, size) ==
    LET uw == usable_w(size)
        uh == usable_h(size)
        nx == GridCount(uw, pitch_x)
        ny == GridCount(uh, pitch_y)
        res(raised, none, cx, cy, cutters) ==
            [face |-> face_selector, face_w |-> size.face_w,
             face_h |-> size.face_h, usable_w |-> uw, usable_h |-> uh,
             raised |-> raised, isNone |-> none,
             nx |-> cx, ny |-> cy, cutters |-> cutters]
    IN IF pitch_x = 0 THEN res(TRUE, FALSE, 0, 0, <<>>)
       ELSE IF pitch_y = 0 THEN res(TRUE, FALSE, nx, 0, <<>>)
       ELSE IF nx <= 0 \/ ny <= 0
            THEN res(FALSE, variant = "rag-basket", nx, ny, <<>>)
       ELSE res(FALSE, FALSE, nx, ny,
                OuterLoop(face_selector, 0, nx, ny))

FaceSizes(face_selector) ==
    IF variant = "rag_basket"
    THEN {ModuleFaceSize(face_selector)}
    ELSE {ScriptFaceSize(bb) : bb \in KernelBoundingBoxes(face_selector)}

SeqRange(s) == {s[k] : k \in 1 .. Len(s)}

----------------------------------------------------------------------------
(* The program *)

Init ==
    /\ variant \in Variants
    /\ p \in Inputs
    /\ pc = "slot"
    /\ sideIdx = 1
    /\ faces = <<>>
    /\ cuts = {}
    /\ slot = [cut |-> FALSE]
    /\ err = "none"
    /\ dpc = "off"
    /\ force = FALSE
    /\ stepIdx = 1
    /\ files = <<>>
    /\ exports = <<>>
    /\ runs = 0
    /\ filesAtStart = files
    /\ prevRun = "off"

\* the slot cutter is built and cut out of the shelled box
CutSlot ==
    /\ pc = "slot"
    /\ slot' = [cut |-> TRUE, face |-> slot_face,
                horiz_center |-> slot_horiz_center4,
                horiz_half |-> slot_horiz_half4,
                min_z |-> cutter_min_z4, max_z |-> cutter_max_z4]
    /\ pc' = "lattice"
    /\ UNCHANGED <<variant, p, sideIdx, faces, cuts, err, diagVars>>

\* one turn of the loop over the sides: the cutters of the face are
\* created and each is cut out of the model
LatticeFace ==
    /\ pc = "lattice"
    /\ sideIdx <= Len(LatticeSides)
    /\ \E size \in FaceSizes(LatticeSides[sideIdx]) :
         LET r == create_lattice_for_face(LatticeSides[sideIdx], size)
         IN /\ ~r.raised
            /\ faces' = Append(faces, r)
            /\ cuts' = cuts \cup SeqRange(r.cutters)
    /\ sideIdx' = sideIdx + 1
    /\ UNCHANGED <<variant, p, pc, slot, err, diagVars>>

\* the division by a zero pitch ends the program with ZeroDivisionError
LatticeRaise ==
    /\ pc = "lattice"
    /\ sideIdx <= Len(LatticeSides)
    /\ \E size \in FaceSizes(LatticeSides[sideIdx]) :
         create_lattice_for_face(LatticeSides[sideIdx], size).raised
    /\ pc' = "raised"
    /\ err' = "ZeroDivisionError"
    /\ UNCHANGED <<variant, p, sideIdx, faces, cuts, slot, diagVars>>

\* every side is done: the model is returned
ReturnModel ==
    /\ pc = "lattice"
    /\ sideIdx > Len(LatticeSides)
    /\ pc' = "done"
    /\ UNCHANGED <<variant, p, sideIdx, faces, cuts, slot, err, diagVars>>

Next == CutSlot \/ LatticeFace \/ LatticeRaise \/ ReturnModel

Spec == Init /\ [][Next]_vars

----------------------------------------------------------------------------
(* The diagnostic export of src/diagnose_rag_improved.py.  A file of the   *)
(* output directory is absent, complete or partial, and carries the        *)
(* number of the run that wrote it, 0 for a file found before the first    *)
(* run.                                                                    *)

StepFiles ==
    <<"step1_base.stl", "step2_shell.stl", "step3_slot.stl",
      "step4_lat1.stl">>

AbsentFile == [state |-> "absent", run |-> 0]

FoundFile == [state |-> "complete", run |-> 0]

\* out.exists()
Exists(file) == file.state # "absent"

\* cq.exporters.export writes the file, raises before it writes, or raises
\* with the file half written
ExporterOutcomes == {"written", "raised", "raised_partial"}

\* the file left by cq.exporters.export called in run k
Exported(file, outcome, k) ==
    CASE outcome = "written" -> [state |-> "complete", run |-> k]
      [] outcome = "raised" -> file
      [] outcome = "raised_partial" -> [state |-> "partial", run |-> k]

\* export_if_needed without the test of out.exists()
ExportAlways(exists, frc, outcome) ==
    [invoked |-> TRUE, raises |-> outcome # "written"]

\* export_if_needed with the exception printed and not raised again
ExportSwallows(exists, frc, outcome) ==
    IF exists /\ ~frc
    THEN [invoked |-> FALSE, raises |-> FALSE]
    ELSE [invoked |-> TRUE, raises |-> FALSE]

\* export_if_needed: whether the exporter is called and whether the call
\* ends with an exception
export_if_needed(exists, frc, outcome) ==
    IF exists /\ ~frc
    THEN [invoked |-> FALSE, raises |-> FALSE]
    ELSE [invoked |-> TRUE, raises |-> outcome # "written"]

\* the record of one call of export_if_needed in the current run
ExportCall(filename, outcome) ==
    LET res == export_if_needed(Exists(files[filename]), force, outcome)
    IN [filename |-> filename,
        existed |-> Exists(files[filename]),
        force |-> force,
        invoked |-> res.invoked,
        failed |-> res.invoked /\ outcome # "written",
        raises |-> res.raises,
        before |-> files[filename],
        after |-> IF res.invoked
                  THEN Exported(files[filename], outcome, runs)
                  ELSE files[filename]]

InitDiag ==
    /\ variant = "rag_basket"
    /\ p = DefaultParams
    /\ pc = "off"
    /\ sideIdx = 1
    /\ faces = <<>>
    /\ cuts = {}
    /\ slot = [cut |-> FALSE]
    /\ err = "none"
    /\ dpc = "idle"
    /\ force = FALSE
    /\ stepIdx = 1
    /\ files \in [{StepFiles[k] : k \in 1 .. Len(StepFiles)}
                     -> {AbsentFile, FoundFile}]
    /\ exports = <<>>
    /\ runs = 0
    /\ filesAtStart = files
    /\ prevRun = "none"

\* the script is started, with or without --force
run_steps ==
    /\ dpc \in {"idle", "done", "raised"}
    /\ runs < MaxRuns
    /\ \E frc \in BOOLEAN : force' = frc
    /\ runs' = runs + 1
    /\ prevRun' = dpc
    /\ filesAtStart' = files
    /\ stepIdx' = 1
    /\ exports' = <<>>
    /\ dpc' = "running"
    /\ UNCHANGED <<files, latticeVars>>

\* the next step is built and export_if_needed returns; after the fourth
\* step run_steps returns
ExportStep ==
    /\ dpc = "running"
    /\ \E outcome \in ExporterOutcomes :
         LET call == ExportCall(StepFiles[stepIdx], outcome)
         IN /\ ~call.raises
            /\ files' = [files EXCEPT ![call.filename] = call.after]
            /\ exports' = Append(exports, call)
    /\ IF stepIdx = Len(StepFiles)
       THEN dpc' = "done" /\ stepIdx' = stepIdx
       ELSE dpc' = dpc /\ stepIdx' = stepIdx + 1
    /\ UNCHANGED <<force, runs, filesAtStart, prevRun, latticeVars>>

\* the next step is built and export_if_needed re-raises the exception of
\* the exporter, which ends run_steps
ExportRaise ==
    /\ dpc = "running"
    /\ \E outcome \in ExporterOutcomes :
         LET call == ExportCall(StepFiles[stepIdx], outcome)
         IN /\ call.raises
            /\ files' = [files EXCEPT ![call.filename] = call.after]
            /\ exports' = Append(exports, call)
    /\ dpc' = "raised"
    /\ UNCHANGED <<force, stepIdx, runs, filesAtStart, prevRun, latticeVars>>

NextDiag == run_steps \/ ExportStep \/ ExportRaise

SpecDiag == InitDiag /\ [][NextDiag]_vars

----------------------------------------------------------------------------
(* Vocabulary of the properties *)

ValidCellX == p.diamond_width > 0 /\ p.diamond_spacing_x > 0

ValidCellY == p.diamond_height > 0 /\ p.diamond_spacing_y > 0

\* a box with positive sizes and no negative wall or margin
ValidBox ==
    /\ p.width > 0 /\ p.depth > 0 /\ p.height > 0
    /\ p.wall_thickness >= 0 /\ p.lattice_offset_edge >= 0

\* the faces laid out so far
Laid == {faces[k] : k \in 1 .. Len(faces)}

\* the cutters of face r that sit at column i of row j
At(r, i, j) == {m \in 1 .. Len(r.cutters) :
                    r.cutters[m].i = i /\ r.cutters[m].j = j}

\* no placement of face r is subject to the exclusion
NoExclusion(r) ==
    \/ ~TestsExclusion(r.face)
    \/ \A i \in 0 .. r.nx - 1, j \in 0 .. r.ny - 1 :
          ~is_excluded(lx4(i, j, r.nx), lz4(j, r.ny))

----------------------------------------------------------------------------
(* C1: for usable_extent >= 0, cell_extent > 0 and spacing > 0 the grid    *)
(* count of an axis is the unique n >= 0 with                              *)
(* n * (cell_extent + spacing) <= usable_extent                            *)
(*                             < (n + 1) * (cell_extent + spacing).        *)
C1_GridCountIsFloor ==
    \A r \in Laid :
        /\ (ValidCellX /\ r.usable_w >= 0) =>
              /\ r.nx >= 0
              /\ r.nx * pitch_x <= r.usable_w
              /\ r.usable_w < (r.nx + 1) * pitch_x
        /\ (ValidCellY /\ r.usable_h >= 0) =>
              /\ r.ny >= 0
              /\ r.ny * pitch_y <= r.usable_h
              /\ r.usable_h < (r.ny + 1) * pitch_y

\* a face whose width holds three pitches and a remainder, and whose
\* height holds two
C1_Witness ==
    \E r \in Laid :
        /\ ValidBox /\ ValidCellX /\ ValidCellY
        /\ r.nx = 3 /\ r.usable_w > 3 * pitch_x
        /\ r.ny = 2 /\ r.usable_h > 2 * pitch_y

(* C2: for valid inputs and no exclusion in effect a face yields exactly   *)
(* nx * ny placements, one for each row j in [0, ny) and column i in       *)
(* [0, nx); usable 80 x 130 with cell 8 x 12 and spacing 4 gives 6 x 8 =   *)
(* 48 placements.                                                          *)
C2_OnePlacementPerCell ==
    \A r \in Laid :
        (/\ ValidCellX /\ ValidCellY
         /\ r.usable_w >= 0 /\ r.usable_h >= 0
         /\ NoExclusion(r)) =>
            /\ Len(r.cutters) = r.nx * r.ny
            /\ \A i \in 0 .. r.nx - 1, j \in 0 .. r.ny - 1 :
                  Cardinality(At(r, i, j)) = 1
            /\ (/\ r.usable_w = 80 /\ p.diamond_width = 8
                /\ p.diamond_spacing_x = 4
                /\ r.usable_h = 130 /\ p.diamond_height = 12
                /\ p.diamond_spacing_y = 4) =>
                   (r.nx = 6 /\ r.ny = 8 /\ Len(r.cutters) = 48)

\* the scenario of the specification: usable 80 x 130 laid out
C2_Witness ==
    \E r \in Laid :
        /\ r.usable_w = 80 /\ r.usable_h = 130
        /\ p.diamond_width = 8 /\ p.diamond_spacing_x = 4
        /\ p.diamond_height = 12 /\ p.diamond_spacing_y = 4
        /\ NoExclusion(r)
        /\ Len(r.cutters) = 48

(* C3 as stated: whenever the usable extent of an axis is smaller than the *)
(* cell extent of that axis (zero and negative extents included) the grid  *)
(* count of that axis is 0 and the face yields an empty cutter set without *)
(* raising, whatever the count of the other axis.                          *)
C3_CountZeroWhenTooSmall ==
    /\ \A r \in Laid :
        (r.face_w > 0 /\ r.face_h > 0 /\ p.lattice_offset_edge >= 0) =>
            /\ (ValidCellX /\ r.usable_w < p.diamond_width) =>
                  (r.nx = 0 /\ r.cutters = <<>>)
            /\ (ValidCellY /\ r.usable_h < p.diamond_height) =>
                  (r.ny = 0 /\ r.cutters = <<>>)
    /\ (ValidCellX /\ ValidCellY) => pc # "raised"

(* C3 amended: under the same condition the grid count of that axis is at  *)
(* most 0 - exactly 0 in rag_basket.py, which clamps the usable extent at  *)
(* 0, and in rag-basket.py as long as the usable extent is above minus one *)
(* pitch - and the face yields an empty cutter set without raising,        *)
(* whatever the count of the other axis.                                   *)
C3_EmptyWhenTooSmall ==
    /\ \A r \in Laid :
        /\ (ValidCellX /\ r.usable_w < p.diamond_width) =>
              /\ r.nx <= 0
              /\ (variant = "rag_basket" \/ r.usable_w > -pitch_x)
                    => r.nx = 0
              /\ r.cutters = <<>>
        /\ (ValidCellY /\ r.usable_h < p.diamond_height) =>
              /\ r.ny <= 0
              /\ (variant = "rag_basket" \/ r.usable_h > -pitch_y)
                    => r.ny = 0
              /\ r.cutters = <<>>
    /\ (ValidCellX /\ ValidCellY) => pc # "raised"

\* a face too narrow for one cell whose height holds rows
C3_Witness ==
    \E r \in Laid :
        /\ ValidBox /\ ValidCellX /\ ValidCellY
        /\ r.usable_w < p.diamond_width /\ r.usable_w >= 0
        /\ r.ny > 0 /\ r.cutters = <<>>

(* C4: the layout never raises, for any numeric face dimensions, cell      *)
(* sizes and spacings, zero and negative values and a zero pitch included. *)
C4_NeverRaises == pc # "raised" /\ err = "none"

(* C5: the cutter of row j and column i sits at                            *)
(*   local_x = -grid_total_w/2 + width/2 + i*pitch_x  (+ pitch_x/2 exactly *)
(*             when the rows are staggered and j is odd),                  *)
(*   local_y = -grid_total_h/2 + height/2 + j*pitch_y,                     *)
(* that is (2i - (nx-1)) * pitch_x/2 and (2j - (ny-1)) * pitch_y/2 from    *)
(* the face centre; with nx = 3, width 8 and spacing 4 the even rows sit   *)
(* at {-12, 0, 12} and the odd rows at {-6, 6, 18}.                        *)
C5_PlacementFormula ==
    \A r \in Laid :
        /\ \A m \in 1 .. Len(r.cutters) :
              LET c == r.cutters[m]
              IN /\ c.lx = 2 * (2 * c.i - (r.nx - 1)) * pitch_x
                            + (IF variant = "rag_basket" /\ c.j % 2 = 1
                               THEN 2 * pitch_x ELSE 0)
                 /\ c.lz = 2 * (2 * c.j - (r.ny - 1)) * pitch_y
        /\ (/\ variant = "rag_basket" /\ ~TestsExclusion(r.face)
            /\ r.nx = 3 /\ r.ny >= 2
            /\ p.diamond_width = 8 /\ p.diamond_spacing_x = 4) =>
              \A m \in 1 .. Len(r.cutters) :
                 LET c == r.cutters[m]
                 IN /\ c.j % 2 = 0 =>
                        c.lx = (CASE c.i = 0 -> -48 [] c.i = 1 -> 0
                                  [] c.i = 2 -> 48)
                    /\ c.j % 2 = 1 =>
                        c.lx = (CASE c.i = 0 -> -24 [] c.i = 1 -> 24
                                  [] c.i = 2 -> 72)

\* the three-column scenario laid out with an even and an odd row
C5_Witness ==
    \E r \in Laid :
        /\ variant = "rag_basket" /\ ~TestsExclusion(r.face)
        /\ r.nx = 3 /\ r.ny >= 2
        /\ p.diamond_width = 8 /\ p.diamond_spacing_x = 4
        /\ \E m \in 1 .. Len(r.cutters) :
              r.cutters[m].j = 1 /\ r.cutters[m].lx = 72

\* the face of make_rag_basket directly opposite the slot that was cut,
\* once laid out
Tested ==
    {r \in Laid :
        /\ variant = "rag_basket"
        /\ \/ slot.face = "+X" /\ r.face = "-X"
           \/ slot.face = "+Y" /\ r.face = "-Y"}

\* the grid cells of face r
Cells(r) == (0 .. r.nx - 1) \X (0 .. r.ny - 1)

\* the placement of cell c of face r was skipped
Skipped(r, c) == At(r, c[1], c[2]) = {}

\* distance of the placement of cell c from the slot centre along the
\* slot's horizontal axis, and the clearance kept around the slot
HorizDist4(r, c) == Abs(lx4(c[1], c[2], r.nx) - slot.horiz_center)

Clearance4 == 4 * p.lattice_offset_edge

(* C6 as stated: a placement is excluded if and only if its horizontal     *)
(* coordinate lies within (half slot extent + clearance) of the slot       *)
(* centre and its vertical coordinate lies in the closed interval          *)
(* [slot_min - clearance, slot_max + clearance]; a placement exactly on    *)
(* one of these bounds is excluded.                                        *)
C6_ExcludedIffWithinClosed ==
    \A r \in Tested : \A c \in Cells(r) :
        Skipped(r, c) <=>
            /\ HorizDist4(r, c) <= slot.horiz_half + Clearance4
            /\ lz4(c[2], r.ny) >= slot.min_z - Clearance4
            /\ lz4(c[2], r.ny) <= slot.max_z + Clearance4

(* C6 amended: a placement is excluded if and only if its horizontal       *)
(* coordinate lies strictly within (half slot extent + clearance) of the   *)
(* slot centre and its vertical coordinate lies in the open interval       *)
(* (slot_min - clearance, slot_max + clearance); a placement exactly on    *)
(* one of these bounds is kept, and so is one that meets only one of the   *)
(* two conditions.                                                         *)
C6_ExcludedIffWithinOpen ==
    \A r \in Tested : \A c \in Cells(r) :
        Skipped(r, c) <=>
            /\ HorizDist4(r, c) < slot.horiz_half + Clearance4
            /\ lz4(c[2], r.ny) > slot.min_z - Clearance4
            /\ lz4(c[2], r.ny) < slot.max_z + Clearance4

\* a face opposite the slot with a skipped placement, a kept one that is
\* only horizontally within the slot and a kept one only vertically
C6_Witness ==
    \E r \in Tested :
        /\ ValidBox /\ ValidCellX /\ ValidCellY
        /\ \E c \in Cells(r) : Skipped(r, c)
        /\ \E c \in Cells(r) :
              /\ ~Skipped(r, c)
              /\ HorizDist4(r, c) < slot.horiz_half + Clearance4
              /\ lz4(c[2], r.ny) < slot.min_z - Clearance4
        /\ \E c \in Cells(r) :
              /\ ~Skipped(r, c)
              /\ HorizDist4(r, c) > slot.horiz_half + Clearance4
              /\ lz4(c[2], r.ny) > slot.min_z - Clearance4
              /\ lz4(c[2], r.ny) < slot.max_z + Clearance4

\* the slot region contains the whole usable area of face r
Covers(r) ==
    /\ slot.horiz_center = 0
    /\ slot.horiz_half >= 2 * r.usable_w
    /\ slot.min_z <= -2 * r.usable_h
    /\ slot.max_z >= 2 * r.usable_h

(* C7 as stated: when the reserved region fully covers the patterned face, *)
(* for any clearance >= 0, is_excluded is true for every placement of the  *)
(* grid, staggered rows included, and the face gets no cutter.             *)
C7_CoveredFaceIsEmpty ==
    \A r \in Tested :
        (/\ ValidCellX /\ ValidCellY
         /\ p.lattice_offset_edge >= 0
         /\ Covers(r)) =>
            /\ \A c \in Cells(r) :
                  is_excluded(lx4(c[1], c[2], r.nx), lz4(c[2], r.ny))
            /\ r.cutters = <<>>

(* C7 amended: when the reserved region fully covers the patterned face,   *)
(* for any clearance > 0, is_excluded is true for every placement of the   *)
(* grid, staggered rows included, and the face gets no cutter.             *)
C7_CoveredFaceIsEmptyWithClearance ==
    \A r \in Tested :
        (/\ ValidCellX /\ ValidCellY
         /\ p.lattice_offset_edge > 0
         /\ Covers(r)) =>
            /\ \A c \in Cells(r) :
                  is_excluded(lx4(c[1], c[2], r.nx), lz4(c[2], r.ny))
            /\ r.cutters = <<>>

\* a covered face with a staggered row of two columns, left without cutter
C7_Witness ==
    \E r \in Tested :
        /\ ValidBox /\ ValidCellX /\ ValidCellY
        /\ p.lattice_offset_edge > 0
        /\ Covers(r)
        /\ r.nx >= 2 /\ r.ny >= 2
        /\ r.cutters = <<>>

(* C8: the placements of a non-staggered layout are symmetric under        *)
(* negation of local_x when nx is even and under negation of local_y when  *)
(* ny is even; when nx (ny) is odd exactly one column (row) lies at        *)
(* local_x = 0 (local_y = 0).                                              *)
C8_Symmetry ==
    \A r \in Laid :
        (variant = "rag-basket" /\ r.cutters # <<>>) =>
            LET P == {<<r.cutters[m].lx, r.cutters[m].lz>> :
                          m \in 1 .. Len(r.cutters)}
            IN /\ r.nx % 2 = 0 => \A q \in P : <<-q[1], q[2]>> \in P
               /\ r.ny % 2 = 0 => \A q \in P : <<q[1], -q[2]>> \in P
               /\ r.nx % 2 = 1 =>
                     \E i \in 0 .. r.nx - 1 :
                        \A m \in 1 .. Len(r.cutters) :
                           (r.cutters[m].lx = 0) <=> (r.cutters[m].i = i)
               /\ r.ny % 2 = 1 =>
                     \E j \in 0 .. r.ny - 1 :
                        \A m \in 1 .. Len(r.cutters) :
                           (r.cutters[m].lz = 0) <=> (r.cutters[m].j = j)

\* a non-staggered face with an even number of columns and an odd number
\* of rows, more than one of each
C8_Witness ==
    \E r \in Laid :
        /\ variant = "rag-basket"
        /\ ValidBox /\ ValidCellX /\ ValidCellY
        /\ r.nx >= 2 /\ r.nx % 2 = 0
        /\ r.ny >= 3 /\ r.ny % 2 = 1
        /\ Len(r.cutters) = r.nx * r.ny

(* C10: in make_rag_basket the face that carries the slot gets no diamond  *)
(* lattice: cutters are generated and cut only for the three other side    *)
(* faces.                                                                  *)
C10_NoLatticeOnSlotFace ==
    variant = "rag_basket" => \A c \in cuts : c.face # slot.face

(* C12: on the face opposite the slot a cutter is produced for a grid      *)
(* placement if and only if is_excluded is false for it; an excluded       *)
(* placement is omitted entirely, and every other placement of its row and *)
(* of the later rows is still there, once, at its own grid position.       *)
C12_CutterIffNotExcluded ==
    \A r \in Tested : \A c \in Cells(r) :
        LET x == lx4(c[1], c[2], r.nx)
            z == lz4(c[2], r.ny)
        IN IF is_excluded(x, z)
           THEN At(r, c[1], c[2]) = {}
           ELSE /\ Cardinality(At(r, c[1], c[2])) = 1
                /\ \A m \in At(r, c[1], c[2]) :
                      r.cutters[m].lx = x /\ r.cutters[m].lz = z

\* a row of the opposite face in which a skipped placement is followed by
\* a kept one, with a kept placement in a later row
C12_Witness ==
    \E r \in Tested :
        /\ ValidBox /\ ValidCellX /\ ValidCellY
        /\ \E c \in Cells(r), d \in Cells(r), e \in Cells(r) :
              /\ c[2] = d[2] /\ c[1] < d[1]
              /\ Skipped(r, c) /\ ~Skipped(r, d)
              /\ e[2] > c[2] /\ ~Skipped(r, e)

ExactCount(usable, spacing, pitch) == (usable + spacing) \div pitch

(* C14: for usable_extent >= 0, cell_extent > 0 and spacing > 0 the grid   *)
(* count never exceeds the exact packing count                             *)
(* floor((usable_extent + spacing) / (cell_extent + spacing)) and is       *)
(* smaller than it by at most 1.                                           *)
C14_CountWithinOneOfExact ==
    \A r \in Laid :
        /\ (ValidCellX /\ r.usable_w >= 0) =>
              LET e == ExactCount(r.usable_w, p.diamond_spacing_x, pitch_x)
              IN r.nx <= e /\ e - r.nx <= 1
        /\ (ValidCellY /\ r.usable_h >= 0) =>
              LET e == ExactCount(r.usable_h, p.diamond_spacing_y, pitch_y)
              IN r.ny <= e /\ e - r.ny <= 1

\* a face where the grid count is one short of the exact count across and
\* equal to it upwards
C14_Witness ==
    \E r \in Laid :
        /\ ValidBox /\ ValidCellX /\ ValidCellY
        /\ r.usable_w >= 0 /\ r.usable_h >= 0
        /\ r.nx >= 1 /\ r.ny >= 1
        /\ ExactCount(r.usable_w, p.diamond_spacing_x, pitch_x) = r.nx + 1
        /\ ExactCount(r.usable_h, p.diamond_spacing_y, pitch_y) = r.ny

(* C15: in make_rag_basket the vertical span                               *)
(* [lz - diamond_height/2, lz + diamond_height/2] of every diamond lies    *)
(* within [-usable_h/2, usable_h/2] with                                   *)
(* usable_h = (height - wall_thickness) - 2 * lattice_offset_edge, so the  *)
(* diamond stays at least lattice_offset_edge away from the top and the    *)
(* bottom of the face.                                                     *)
C15_VerticalClearance ==
    variant = "rag_basket" =>
        \A r \in Laid : \A m \in 1 .. Len(r.cutters) :
            LET lz == r.cutters[m].lz
                uh == (p.height - p.wall_thickness)
                          - 2 * p.lattice_offset_edge
            IN /\ lz - 2 * p.diamond_height >= -2 * uh
               /\ lz + 2 * p.diamond_height <= 2 * uh
               /\ 2 * r.face_h - (lz + 2 * p.diamond_height)
                     >= 4 * p.lattice_offset_edge
               /\ (lz - 2 * p.diamond_height) + 2 * r.face_h
                     >= 4 * p.lattice_offset_edge

\* a face of make_rag_basket with a margin, a wall and two rows or more
C15_Witness ==
    \E r \in Laid :
        /\ variant = "rag_basket"
        /\ ValidBox /\ ValidCellX /\ ValidCellY
        /\ p.lattice_offset_edge > 0 /\ p.wall_thickness > 0
        /\ r.ny >= 2 /\ r.cutters # <<>>

\* the horizontal footprint of placement m of face r, times 4
FootLeft4(r, m) == r.cutters[m].lx - 2 * p.diamond_width
FootRight4(r, m) == r.cutters[m].lx + 2 * p.diamond_width

(* C16 as stated: for every placement, staggered odd rows included, the    *)
(* horizontal footprint [lx - diamond_width/2, lx + diamond_width/2] lies  *)
(* within [-usable_w/2, usable_w/2].                                       *)
C16_FootprintWithinUsableWidth ==
    (ValidBox /\ ValidCellX /\ ValidCellY /\ p.lattice_offset_edge >= 0) =>
        \A r \in Laid : \A m \in 1 .. Len(r.cutters) :
            /\ FootLeft4(r, m) >= -2 * r.usable_w
            /\ FootRight4(r, m) <= 2 * r.usable_w

(* C16 amended: the footprint of every placement of an unstaggered row     *)
(* lies within [-usable_w/2, usable_w/2]; on a staggered odd row the       *)
(* footprint starts at or right of -usable_w/2 and may pass usable_w/2,    *)
(* by at most half a pitch, (diamond_width + diamond_spacing_x)/2.         *)
C16_FootprintWithinStaggeredWidth ==
    (ValidBox /\ ValidCellX /\ ValidCellY /\ p.lattice_offset_edge >= 0) =>
        \A r \in Laid : \A m \in 1 .. Len(r.cutters) :
            /\ FootLeft4(r, m) >= -2 * r.usable_w
            /\ FootRight4(r, m) <= 2 * r.usable_w
                  + (IF variant = "rag_basket" /\ r.cutters[m].j % 2 = 1
                     THEN 2 * pitch_x ELSE 0)

\* a face of make_rag_basket whose staggered row passes the usable width
\* while its unstaggered rows reach from one edge to the other
C16_Witness ==
    \E r \in Laid :
        /\ variant = "rag_basket"
        /\ ValidBox /\ ValidCellX /\ ValidCellY /\ p.lattice_offset_edge >= 0
        /\ r.nx >= 2
        /\ \E m \in 1 .. Len(r.cutters) :
              /\ r.cutters[m].j % 2 = 1
              /\ FootRight4(r, m) > 2 * r.usable_w
        /\ \E m \in 1 .. Len(r.cutters) :
              /\ r.cutters[m].j % 2 = 0
              /\ FootRight4(r, m) <= 2 * r.usable_w
              /\ r.cutters[m].i = r.nx - 1

(* C17: the slot cut spans vertically exactly from                         *)
(* height/2 - height * slot_depth_ratio up to height/2 + margin, these     *)
(* being the values of cut_center_z -/+ total_cut_h/2, and the slot        *)
(* bounds recomputed inside create_lattice_for_face for the exclusion      *)
(* test equal the bounds of the slot that was cut.                         *)
C17_SlotBoundsAgree ==
    slot.cut =>
        /\ slot.min_z = 2 * p.height - 2 * p.height * p.ratio2
        /\ slot.max_z = 2 * p.height + 4 * margin
        /\ variant = "rag_basket" =>
              slot_min_z4 = slot.min_z /\ slot_max_z4 = slot.max_z

\* a slot half the height deep has been cut and the face opposite to it
\* has a placement skipped by the exclusion test and one that is kept
C17_Witness ==
    /\ slot.cut /\ ValidBox /\ ValidCellX /\ ValidCellY
    /\ p.ratio2 = 1
    /\ slot.min_z = p.height * 2 - p.height * 2 * p.ratio2
    /\ \E r \in Tested :
          /\ \E c \in Cells(r) : Skipped(r, c)
          /\ r.cutters # <<>>

(* C11: export_if_needed called for a file that exists, with force false, *)
(* does not call the exporter and leaves the file as it was; the exporter  *)
(* is called only when the file does not exist or force is true; and a     *)
(* run of run_steps without force that follows a run that ended normally   *)
(* writes no file.                                                         *)
C11_ExportIdempotent ==
    /\ \A k \in 1 .. Len(exports) :
          /\ (exports[k].existed /\ ~exports[k].force) =>
                ~exports[k].invoked /\ exports[k].after = exports[k].before
          /\ exports[k].invoked =>
                ~exports[k].existed \/ exports[k].force
    /\ (prevRun = "done" /\ dpc # "idle" /\ ~force) =>
          /\ files = filesAtStart
          /\ \A k \in 1 .. Len(exports) : ~exports[k].invoked

\* the second run, without force, has ended after skipping the four files,
\* one of which the first run had written
C11_Witness ==
    /\ prevRun = "done" /\ dpc = "done" /\ ~force /\ runs = 2
    /\ Len(exports) = Len(StepFiles)
    /\ \A k \in 1 .. Len(exports) : exports[k].existed /\ ~exports[k].invoked
    /\ \E k \in 1 .. Len(StepFiles) :
          files[StepFiles[k]] = [state |-> "complete", run |-> 1]

(* C18: run_steps exports step1_base, step2_shell, step3_slot and          *)
(* step4_lat1 in this order; when the exporter raises for a step the       *)
(* exception leaves export_if_needed and no later step is built or         *)
(* exported; a step whose file is skipped as existing is followed by the   *)
(* later steps.                                                            *)
C18_StepsInOrderStopOnRaise ==
    /\ Len(exports) <= Len(StepFiles)
    /\ \A k \in 1 .. Len(exports) :
          /\ exports[k].filename = StepFiles[k]
          /\ exports[k].failed => k = Len(exports) /\ dpc = "raised"
          /\ (~exports[k].failed /\ k = Len(exports)
                  /\ k < Len(StepFiles)) =>
                dpc = "running" /\ stepIdx = k + 1
    /\ dpc = "raised" =>
          exports # <<>> /\ exports[Len(exports)].failed
    /\ dpc = "done" => Len(exports) = Len(StepFiles)

\* the first file was skipped, the second exported and the exporter raised
\* for the third: the run has ended there
C18_Witness ==
    /\ dpc = "raised" /\ Len(exports) = 3
    /\ exports[1].existed /\ ~exports[1].invoked
    /\ exports[2].invoked /\ ~exports[2].failed
    /\ exports[3].failed

====
